---- MODULE Spec2Model ----
(***************************************************************************)
(* bt_speaker.py: a BlueZ pairing agent and auto-trust reactor.            *)
(*                                                                         *)
(* main() is one coroutine: it registers the agent, waits for an adapter,  *)
(* provisions it, subscribes to PropertiesChanged and then sleeps forever. *)
(* After the subscription the bus invokes handler() once per signal; each  *)
(* invocation is a coroutine of its own that suspends at its remote calls. *)
(*                                                                         *)
(* Every remote call is one step whose outcome (a reply, or an exception)  *)
(* is chosen by the environment.  `log` is the trace of what main() did    *)
(* (remote calls and printed lines, in program order) and `hlog[i]` is the *)
(* trace of the handler invocation for the i-th delivered signal.          *)
(*                                                                         *)
(*   Spec         main() from process start up to "sit forever"            *)
(*   SpecReactor  the handler invocations, from the state main() is in     *)
(*                once it has subscribed                                   *)
(*   SpecAgent    the callbacks BlueZ makes on the exported Agent object    *)
(***************************************************************************)
EXTENDS Integers, Sequences, FiniteSets

VARIABLES pc, log, exit_code, polls, errors, sleeps, reply, adapter_path, key_index,
          subscribed, msgs, hpc, hlog, replies

vars == <<pc, log, exit_code, polls, errors, sleeps, reply, adapter_path, key_index,
          subscribed, msgs, hpc, hlog, replies>>

(* ------------------------------ constants ------------------------------ *)

BLUEZ == "org.bluez"
OBJMGR_IFACE == "org.freedesktop.DBus.ObjectManager"
PROPS_IFACE == "org.freedesktop.DBus.Properties"
ADAPTER_IFACE == "org.bluez.Adapter1"
DEVICE_IFACE == "org.bluez.Device1"
AGENT_MGR_IFACE == "org.bluez.AgentManager1"
AGENT_IFACE == "org.bluez.Agent1"
AGENT_PATH == "/bt/agent"
AGENT_CAP == "NoInputNoOutput"

\* get_adapter_path(bus, retries = 10, delay = 0.5)
retries == 10

\* how many signals the bus delivers in one run
MaxEvents == 2

\* how many callbacks BlueZ makes on the agent in one run
MaxCalls == 2

None == "None"

(* ----------------------------- trace entries --------------------------- *)

\* Variant(signature, value); values are written as text
Variant(sig, value) == [variant |-> TRUE, signature |-> sig, value |-> value]

\* a remote call with its outcome: "ok", or the name of the error raised
Call(op, path, iface, arg, sig, val, res) ==
    [op |-> op, path |-> path, iface |-> iface, arg |-> arg,
     sig |-> sig, val |-> val, res |-> res]

\* print(...): one line on a stream, with its tag and what it is about
Line(stream, tag, about) ==
    Call("print", stream, None, tag, None, about, "ok")

\* props.call_set(iface, key, Variant(...)) on the object at path
SetCall(path, iface, key, v, res) ==
    Call("Set", path, iface, key, v.signature, v.value, res)

\* bus.introspect(BLUEZ, path)
IntrospectCall(path, res) == Call("Introspect", path, None, None, None, None, res)

\* an exception nobody catches leaves asyncio.run(): traceback, exit status 1
Traceback(where) == Line("stderr", "Traceback", where)

(* ------------------------------ the registry --------------------------- *)

Object(path, ifaces) == [path |-> path, ifaces |-> ifaces]

Root == Object("/org/bluez", {AGENT_MGR_IFACE})
Hci0 == Object("/org/bluez/hci0", {ADAPTER_IFACE, PROPS_IFACE})
Hci1 == Object("/org/bluez/hci1", {ADAPTER_IFACE, PROPS_IFACE})
Dev1 == Object("/org/bluez/hci0/dev_AA", {DEVICE_IFACE, PROPS_IFACE})
Dev2 == Object("/org/bluez/hci0/dev_BB", {DEVICE_IFACE, PROPS_IFACE})
Dev3 == Object("/org/bluez/hci1/dev_CC", {DEVICE_IFACE, PROPS_IFACE})

\* replies of GetManagedObjects, in the order objects.items() yields them
Registries ==
    { <<>>,
      <<Root>>,
      <<Root, Hci0>>,
      <<Root, Hci0, Dev1, Hci1>>,
      <<Root, Hci1, Dev3, Hci0>> }

\* before the first attempt there is no reply
NoReply == [res |-> None, objects |-> <<>>]

\* what one attempt of the polling loop can meet
PollOutcomes ==
    { [res |-> e, objects |-> <<>>] : e \in {"IntrospectError", "QueryError"} }
    \cup { [res |-> "ok", objects |-> r] : r \in Registries }

\* for path, ifaces in objects.items(): if ADAPTER_IFACE in ifaces: return path
FirstAdapter(objects) ==
    IF \E k \in 1..Len(objects) : ADAPTER_IFACE \in objects[k].ifaces
    THEN LET k == CHOOSE k \in 1..Len(objects) :
                     /\ ADAPTER_IFACE \in objects[k].ifaces
                     /\ \A j \in 1..(k - 1) : ADAPTER_IFACE \notin objects[j].ifaces
         IN  objects[k].path
    ELSE None

(* -------------------------------- Init --------------------------------- *)

Init ==
    /\ pc = "connect"
    /\ log = <<>>
    /\ exit_code = <<>>
    /\ polls = 0
    /\ errors = 0
    /\ sleeps = 0
    /\ reply = NoReply
    /\ adapter_path = None
    /\ key_index = 0
    /\ subscribed = FALSE
    /\ msgs = <<>>
    /\ hpc = <<>>
    /\ hlog = <<>>
    /\ replies = <<>>

reactor_vars == <<subscribed, msgs, hpc, hlog>>
locator_vars == <<polls, errors, sleeps, reply, adapter_path>>

\* an exception propagates out of main(): the process dies with a traceback
Crash(entry, where) ==
    /\ pc' = "crashed"
    /\ log' = log \o <<entry, Traceback(where)>>
    /\ exit_code' = <<1>>

(* ------------------------------- main() -------------------------------- *)

\* bus = await MessageBus(bus_type=BusType.SYSTEM).connect()
Connect ==
    /\ pc = "connect"
    /\ \E res \in {"ok", "ConnectError"} :
         IF res = "ok"
         THEN /\ pc' = "register_agent"
              /\ log' = Append(log, Call("Connect", "system", None, None, None, None, res))
              /\ UNCHANGED exit_code
         ELSE Crash(Call("Connect", "system", None, None, None, None, res), "connect")
    /\ UNCHANGED <<locator_vars, key_index, reactor_vars, replies>>

(* --------------------------- register_agent() -------------------------- *)

\* intro = await bus.introspect(BLUEZ, "/org/bluez"); ...; bus.export(AGENT_PATH, agent)
register_agent_export ==
    /\ pc = "register_agent"
    /\ \E res \in {"ok", "IntrospectError"} :
         IF res = "ok"
         THEN /\ pc' = "call_register_agent"
              /\ log' = log \o << IntrospectCall("/org/bluez", res),
                                  Call("Export", AGENT_PATH, AGENT_IFACE, None, None, None, "ok") >>
              /\ UNCHANGED exit_code
         ELSE Crash(IntrospectCall("/org/bluez", res), "register_agent")
    /\ UNCHANGED <<locator_vars, key_index, reactor_vars, replies>>

\* the outcomes of AgentManager1.RegisterAgent
RegisterOutcomes == {"ok", "AlreadyExists", "Failed"}

\* a handler that lets every failure of the register call propagate
register_agent_caught_none(res) == FALSE

\* try: await agent_mgr.call_register_agent(...)  except Exception: pass
\* The handler catches every exception, whatever its cause, and prints nothing.
register_agent_caught(res) == res \in RegisterOutcomes \ {"ok"}

call_register_agent ==
    /\ pc = "call_register_agent"
    /\ \E res \in RegisterOutcomes :
         LET entry == Call("RegisterAgent", "/org/bluez", AGENT_MGR_IFACE, AGENT_PATH, None,
                          AGENT_CAP, res)
         IN  IF res = "ok" \/ register_agent_caught(res)
             THEN /\ pc' = "call_request_default_agent"
                  /\ log' = Append(log, entry)
                  /\ UNCHANGED exit_code
             ELSE Crash(entry, "register_agent")
    /\ UNCHANGED <<locator_vars, key_index, reactor_vars, replies>>

\* await agent_mgr.call_request_default_agent(AGENT_PATH): outside any try
request_default_agent_caught(res) == FALSE

call_request_default_agent ==
    /\ pc = "call_request_default_agent"
    /\ \E res \in {"ok", "Failed"} :
         LET entry == Call("RequestDefaultAgent", "/org/bluez", AGENT_MGR_IFACE, AGENT_PATH,
                          None, None, res)
         IN  IF res = "ok" \/ request_default_agent_caught(res)
             THEN /\ pc' = "get_adapter_path"
                  /\ log' = Append(log, entry)
                  /\ UNCHANGED exit_code
             ELSE Crash(entry, "register_agent")
    /\ UNCHANGED <<locator_vars, key_index, reactor_vars, replies>>

(* -------------------------- get_adapter_path() ------------------------- *)

\* a loop that makes one attempt too many
more_attempts_one_more == polls <= retries

\* for _ in range(retries): the loop runs while fewer than `retries` attempts were made
more_attempts == polls < retries

\* an attempt that does not return the adapter it found and polls on
poll_on ==
    /\ pc = "get_adapter_path"
    /\ polls < retries
    /\ \E o \in PollOutcomes :
         /\ polls' = polls + 1
         /\ reply' = o
         /\ errors' = IF o.res = "ok" THEN errors ELSE errors + 1
         /\ adapter_path' = IF o.res = "ok" THEN FirstAdapter(o.objects) ELSE adapter_path
         /\ pc' = "sleep"
    /\ UNCHANGED <<log, exit_code, sleeps, key_index, reactor_vars, replies>>

\* an attempt whose failed query is not caught
poll_raises ==
    /\ pc = "get_adapter_path"
    /\ polls < retries
    /\ \E o \in PollOutcomes :
         /\ polls' = polls + 1
         /\ reply' = o
         /\ IF o.res = "ok"
            THEN /\ errors' = errors
                 /\ adapter_path' = FirstAdapter(o.objects)
                 /\ pc' = IF FirstAdapter(o.objects) # None
                          THEN "check_adapter" ELSE "sleep"
                 /\ UNCHANGED <<log, exit_code>>
            ELSE /\ errors' = errors + 1
                 /\ adapter_path' = adapter_path
                 /\ Crash(Call("GetManagedObjects", "/", OBJMGR_IFACE, None, None, None,
                               o.res), "get_adapter_path")
    /\ UNCHANGED <<sleeps, key_index, reactor_vars, replies>>

\* one attempt: get_object_manager, call_get_managed_objects, the scan of the reply.
\* An exception of either call is caught (except Exception: pass) and the attempt
\* goes on to the sleep, like an attempt that found no adapter.
poll ==
    /\ pc = "get_adapter_path"
    /\ more_attempts
    /\ \E o \in PollOutcomes :
         /\ polls' = polls + 1
         /\ reply' = o
         /\ IF o.res = "ok"
            THEN /\ errors' = errors
                 /\ adapter_path' = FirstAdapter(o.objects)
                 /\ pc' = IF FirstAdapter(o.objects) # None
                          THEN "check_adapter" ELSE "sleep"
            ELSE /\ errors' = errors + 1
                 /\ adapter_path' = adapter_path
                 /\ pc' = "sleep"
    /\ UNCHANGED <<log, exit_code, sleeps, key_index, reactor_vars, replies>>

\* await asyncio.sleep(delay)
sleep ==
    /\ pc = "sleep"
    /\ sleeps' = sleeps + 1
    /\ pc' = "get_adapter_path"
    /\ UNCHANGED <<log, exit_code, polls, errors, reply, adapter_path, key_index, reactor_vars, replies>>

\* the loop is exhausted: return None
give_up ==
    /\ pc = "get_adapter_path"
    /\ ~more_attempts
    /\ adapter_path' = None
    /\ pc' = "check_adapter"
    /\ UNCHANGED <<log, exit_code, polls, errors, sleeps, reply, key_index, reactor_vars, replies>>

(* ---------------------------- main(), go on ---------------------------- *)

\* if not adapter_path:
no_adapter == adapter_path = None

\* the error is printed but sys.exit(1) is missing
exit_no_adapter_go_on ==
    /\ pc = "check_adapter"
    /\ adapter_path = None
    /\ log' = Append(log, Line("stderr", "ERROR", "No Bluetooth adapter found"))
    /\ pc' = "provision"
    /\ UNCHANGED <<exit_code, locator_vars, key_index, reactor_vars, replies>>

\* print("[ERROR] No Bluetooth adapter found...", file=sys.stderr); sys.exit(1)
exit_no_adapter ==
    /\ pc = "check_adapter"
    /\ no_adapter
    /\ log' = Append(log, Line("stderr", "ERROR", "No Bluetooth adapter found"))
    /\ exit_code' = <<1>>
    /\ pc' = "exited"
    /\ UNCHANGED <<locator_vars, key_index, reactor_vars, replies>>

\* main() with the subscription made before the adapter is provisioned
get_adapter_props_subscribe_first ==
    /\ pc = "check_adapter"
    /\ adapter_path # None
    /\ pc' = "subscribe"
    /\ log' = Append(log, IntrospectCall(adapter_path, "ok"))
    /\ UNCHANGED <<exit_code, locator_vars, key_index, reactor_vars, replies>>

\* adapter_props = await get_props_iface(bus, adapter_path)
get_adapter_props ==
    /\ pc = "check_adapter"
    /\ ~no_adapter
    /\ \E res \in {"ok", "IntrospectError"} :
         IF res = "ok"
         THEN /\ pc' = "provision"
              /\ log' = Append(log, IntrospectCall(adapter_path, res))
              /\ UNCHANGED exit_code
         ELSE Crash(IntrospectCall(adapter_path, res), "get_props_iface")
    /\ UNCHANGED <<locator_vars, key_index, reactor_vars, replies>>

\* the list with Discoverable written before Pairable
Settings_discoverable_first ==
    << <<"Powered", Variant("b", "True")>>,
       <<"Discoverable", Variant("b", "True")>>,
       <<"Pairable", Variant("b", "True")>>,
       <<"Alias", Variant("s", "Pi Speaker")>> >>

\* the list the provisioning loop walks
Settings ==
    << <<"Powered", Variant("b", "True")>>,
       <<"Pairable", Variant("b", "True")>>,
       <<"Discoverable", Variant("b", "True")>>,
       <<"Alias", Variant("s", "Pi Speaker")>> >>

\* a loop that leaves at the first failed write
next_key_break(i, res) == IF res = "ok" THEN i + 1 ELSE i + 4

\* what the loop does after a write: the next key, whatever the outcome
next_key(i, res) == i + 1

\* try: await adapter_props.call_set(ADAPTER_IFACE, key, v)
\* except Exception as e: print(f"[WARN] Failed setting {key}: {e}")
provision ==
    /\ pc = "provision"
    /\ \E res \in {"ok", "Failed"} :
         LET key == Settings[key_index + 1][1]
             v   == Settings[key_index + 1][2]
             set == SetCall(adapter_path, ADAPTER_IFACE, key, v, res)
         IN  /\ log' = IF res = "ok"
                       THEN Append(log, set)
                       ELSE log \o <<set, Line("stdout", "WARN", key)>>
             /\ key_index' = next_key(key_index, res)
             /\ pc' = IF next_key(key_index, res) < Len(Settings)
                      THEN "provision" ELSE "subscribe"
    /\ UNCHANGED <<exit_code, locator_vars, reactor_vars, replies>>

\* await bus.add_signal_receiver(handler, interface=PROPS_IFACE,
\*     signal="PropertiesChanged", path_namespace="/org/bluez"); print("[INFO] Ready...")
subscribe ==
    /\ pc = "subscribe"
    /\ \E res \in {"ok", "Failed"} :
         LET entry == Call("AddSignalReceiver", "/org/bluez", PROPS_IFACE,
                           "PropertiesChanged", None, None, res)
         IN  IF res = "ok"
             THEN /\ pc' = "ready"
                  /\ subscribed' = TRUE
                  /\ log' = log \o <<entry, Line("stdout", "INFO", "Ready")>>
                  /\ UNCHANGED exit_code
             ELSE /\ Crash(entry, "main")
                  /\ UNCHANGED subscribed
    /\ UNCHANGED <<locator_vars, key_index, msgs, hpc, hlog, replies>>

(* --------------------------- the signals ------------------------------- *)

\* message.body[1] is a dict name -> value; it is kept as its list of items
NoValue == [variant |-> FALSE, signature |-> None, value |-> None]

\* changed.get(name): the value under name, None when there is none
Get(changed, name) ==
    IF \E k \in 1..Len(changed) : changed[k][1] = name
    THEN changed[CHOOSE k \in 1..Len(changed) : changed[k][1] = name][2]
    ELSE NoValue

\* Python's truth value of a Variant's value
Truthy(value) == value \notin {"False", "0", "", None}

Message(type, path, interface, member, iface, changed) ==
    [message_type |-> type, path |-> path, interface |-> interface,
     member |-> member, body |-> [iface |-> iface, changed |-> changed]]

PropertiesChanged(path, iface, changed) ==
    Message("SIGNAL", path, PROPS_IFACE, "PropertiesChanged", iface, changed)

ConnectedTrue == << <<"Connected", Variant("b", "True")>> >>
ConnectedFalse == << <<"Connected", Variant("b", "False")>> >>

\* the messages the bus may hand to handler()
Messages ==
    { PropertiesChanged(Dev1.path, DEVICE_IFACE, ConnectedTrue),
      PropertiesChanged(Dev2.path, DEVICE_IFACE, ConnectedTrue),
      PropertiesChanged(Dev3.path, DEVICE_IFACE, ConnectedTrue),
      PropertiesChanged(Dev1.path, DEVICE_IFACE, ConnectedFalse),
      PropertiesChanged(Dev1.path, DEVICE_IFACE, << <<"RSSI", Variant("n", "-60")>> >>),
      PropertiesChanged(Dev1.path, DEVICE_IFACE,
                        << <<"Connected", Variant("s", "yes")>> >>),
      PropertiesChanged(Hci0.path, ADAPTER_IFACE, ConnectedTrue),
      PropertiesChanged(Hci0.path, ADAPTER_IFACE,
                        << <<"Discoverable", Variant("b", "False")>> >>),
      Message("METHOD_RETURN", Dev1.path, PROPS_IFACE, "PropertiesChanged",
              DEVICE_IFACE, ConnectedTrue),
      Message("SIGNAL", Dev1.path, OBJMGR_IFACE, "PropertiesChanged",
              DEVICE_IFACE, ConnectedTrue),
      Message("SIGNAL", Dev1.path, PROPS_IFACE, "InterfacesAdded",
              DEVICE_IFACE, ConnectedTrue) }

(* -------------------------- on_props_changed() ------------------------- *)

\* the adapter an object path lies under ("/org/bluez/hciN/dev_X" under
\* "/org/bluez/hciN"); an adapter lies under itself
AdapterOf(path) ==
    CASE path \in {Hci0.path, Dev1.path, Dev2.path} -> Hci0.path
      [] path \in {Hci1.path, Dev3.path} -> Hci1.path
      [] OTHER -> None

\* a filter that also drops the messages of objects outside the namespace
\* of the adapter main() located
reacts_own_adapter(message) ==
    /\ message.message_type = "SIGNAL"
    /\ message.interface = PROPS_IFACE
    /\ message.member = "PropertiesChanged"
    /\ message.body.iface = DEVICE_IFACE
    /\ AdapterOf(message.path) = adapter_path
    /\ LET connected == Get(message.body.changed, "Connected")
       IN  /\ connected.variant
           /\ connected.signature = "b"
           /\ Truthy(connected.value)

\* the filter without the test `iface != DEVICE_IFACE` of line 116
reacts_any_iface(message) ==
    /\ message.message_type = "SIGNAL"
    /\ message.interface = PROPS_IFACE
    /\ message.member = "PropertiesChanged"
    /\ LET connected == Get(message.body.changed, "Connected")
       IN  /\ connected.variant
           /\ connected.signature = "b"
           /\ Truthy(connected.value)

\* the returns of lines 110-117 and the test of line 120: TRUE when the
\* handler goes on to the writes
reacts(message) ==
    /\ message.message_type = "SIGNAL"
    /\ message.interface = PROPS_IFACE
    /\ message.member = "PropertiesChanged"
    /\ message.body.iface = DEVICE_IFACE
    /\ LET connected == Get(message.body.changed, "Connected")
       IN  /\ connected.variant
           /\ connected.signature = "b"
           /\ Truthy(connected.value)

Events == 1..Len(msgs)

\* the bus hands one more message to handler(): a new invocation, not yet run
deliver ==
    /\ pc = "ready"
    /\ subscribed
    /\ Len(msgs) < MaxEvents
    /\ \E m \in Messages :
         /\ msgs' = Append(msgs, m)
         /\ hpc' = Append(hpc, "on_props_changed")
         /\ hlog' = Append(hlog, <<>>)
    /\ UNCHANGED <<pc, log, exit_code, locator_vars, key_index, subscribed, replies>>

handler_frame == <<pc, log, exit_code, locator_vars, key_index, subscribed, msgs, replies>>

\* lines 110-121: the filter, up to the first await
filter(i) ==
    /\ hpc[i] = "on_props_changed"
    /\ hpc' = [hpc EXCEPT ![i] = IF reacts(msgs[i]) THEN "get_props_iface" ELSE "done"]
    /\ UNCHANGED <<handler_frame, hlog>>

\* a handler that gives up the event when the trust failed
after_trust_failure_return == "done"

\* where the handler goes when the try block of lines 122-126 raised
after_trust_failure == "call_set_discoverable"

\* dev_props = await get_props_iface(bus, dev_path), inside the try of line 122
get_dev_props(i) ==
    /\ hpc[i] = "get_props_iface"
    /\ \E res \in {"ok", "IntrospectError"} :
         LET dev_path == msgs[i].path
         IN  IF res = "ok"
             THEN /\ hlog' = [hlog EXCEPT ![i] = Append(@, IntrospectCall(dev_path, res))]
                  /\ hpc' = [hpc EXCEPT ![i] = "call_set_trusted"]
             ELSE /\ hlog' = [hlog EXCEPT ![i] = @ \o << IntrospectCall(dev_path, res),
                                                         Line("stdout", "WARN", dev_path) >>]
                  /\ hpc' = [hpc EXCEPT ![i] = after_trust_failure]
    /\ UNCHANGED handler_frame

\* await dev_props.call_set(DEVICE_IFACE, "Trusted", Variant("b", True))
\* except Exception as e: print(f"[WARN] Failed to trust {dev_path}: {e}")
set_trusted(i) ==
    /\ hpc[i] = "call_set_trusted"
    /\ \E res \in {"ok", "Failed"} :
         LET dev_path == msgs[i].path
             set == SetCall(dev_path, DEVICE_IFACE, "Trusted", Variant("b", "True"), res)
         IN  IF res = "ok"
             THEN /\ hlog' = [hlog EXCEPT ![i] = Append(@, set)]
                  /\ hpc' = [hpc EXCEPT ![i] = "call_set_discoverable"]
             ELSE /\ hlog' = [hlog EXCEPT ![i] = @ \o <<set, Line("stdout", "WARN", dev_path)>>]
                  /\ hpc' = [hpc EXCEPT ![i] = after_trust_failure]
    /\ UNCHANGED handler_frame

\* the last step with the write sent to the adapter the device belongs to
set_discoverable_device_adapter(i) ==
    /\ hpc[i] = "call_set_discoverable"
    /\ \E res \in {"ok", "Failed"} :
         LET dev_path == msgs[i].path
             set == SetCall(AdapterOf(dev_path), ADAPTER_IFACE, "Discoverable",
                            Variant("b", "True"), res)
         IN  /\ hlog' = [hlog EXCEPT ![i] = @ \o <<set, Line("stdout", "INFO", dev_path)>>]
             /\ hpc' = [hpc EXCEPT ![i] = "done"]
    /\ UNCHANGED handler_frame

\* the last step with the confirmation printed before the adapter write
set_discoverable_info_first(i) ==
    /\ hpc[i] = "call_set_discoverable"
    /\ \E res \in {"ok", "Failed"} :
         LET dev_path == msgs[i].path
             set == SetCall(adapter_path, ADAPTER_IFACE, "Discoverable",
                            Variant("b", "True"), res)
         IN  /\ hlog' = [hlog EXCEPT ![i] = @ \o <<Line("stdout", "INFO", dev_path), set>>]
             /\ hpc' = [hpc EXCEPT ![i] = "done"]
    /\ UNCHANGED handler_frame

\* try: await adapter_props.call_set(ADAPTER_IFACE, "Discoverable", Variant("b", True))
\* except Exception: pass
\* print(f"[INFO] Device connected and trusted: {dev_path}")
set_discoverable(i) ==
    /\ hpc[i] = "call_set_discoverable"
    /\ \E res \in {"ok", "Failed"} :
         LET dev_path == msgs[i].path
             set == SetCall(adapter_path, ADAPTER_IFACE, "Discoverable",
                            Variant("b", "True"), res)
         IN  /\ hlog' = [hlog EXCEPT ![i] = @ \o <<set, Line("stdout", "INFO", dev_path)>>]
             /\ hpc' = [hpc EXCEPT ![i] = "done"]
    /\ UNCHANGED handler_frame


(* ------------------------------ class Agent ---------------------------- *)

\* a method that returns: the reply carries the returned values
Returns(values) == [res |-> "ok", values |-> values]

\* a method that raises: BlueZ gets an error reply and the pairing is refused
Raises(error) == [res |-> error, values |-> <<>>]

\* def Release(self): pass
Release == Returns(<<>>)

\* def RequestPinCode(self, device) -> 's': return ""
RequestPinCode(device) == Returns(<<"">>)

\* def DisplayPinCode(self, device, pincode): pass
DisplayPinCode(device, pincode) == Returns(<<>>)

\* def RequestPasskey(self, device) -> 'u': return 0
RequestPasskey(device) == Returns(<<0>>)

\* def DisplayPasskey(self, device, passkey, entered): pass
DisplayPasskey(device, passkey, entered) == Returns(<<>>)

\* an agent that refuses what nobody confirmed
RequestConfirmation_rejects(device, passkey) == Raises("org.bluez.Error.Rejected")

\* def RequestConfirmation(self, device, passkey): return
RequestConfirmation(device, passkey) == Returns(<<>>)

\* def RequestAuthorization(self, device): return
RequestAuthorization(device) == Returns(<<>>)

\* def AuthorizeService(self, device, uuid): return
AuthorizeService(device, uuid) == Returns(<<>>)

\* def Cancel(self): pass
Cancel == Returns(<<>>)

\* the @method() entry points of the interface org.bluez.Agent1
Methods ==
    {"Release", "RequestPinCode", "DisplayPinCode", "RequestPasskey", "DisplayPasskey",
     "RequestConfirmation", "RequestAuthorization", "AuthorizeService", "Cancel"}

\* the arguments BlueZ passes: a device path, then what the method takes
Devices == {Dev1.path, Dev3.path}
Passkeys == {0, 123456}
Entered == {0, 3}
PinCodes == {"0000"}
Uuids == {"0000110d-0000-1000-8000-00805f9b34fb"}

AgentCalls ==
    { [method |-> m, args |-> <<>>] : m \in {"Release", "Cancel"} }
    \cup { [method |-> m, args |-> <<d>>] :
             m \in {"RequestPinCode", "RequestPasskey", "RequestAuthorization"},
             d \in Devices }
    \cup { [method |-> "DisplayPinCode", args |-> <<d, c>>] : d \in Devices, c \in PinCodes }
    \cup { [method |-> "DisplayPasskey", args |-> <<d, k, n>>] :
             d \in Devices, k \in Passkeys, n \in Entered }
    \cup { [method |-> "RequestConfirmation", args |-> <<d, k>>] :
             d \in Devices, k \in Passkeys }
    \cup { [method |-> "AuthorizeService", args |-> <<d, u>>] : d \in Devices, u \in Uuids }

\* the call of the method of that name on the exported object
Invoke(call) ==
    LET a == call.args
    IN  CASE call.method = "Release" -> Release
          [] call.method = "RequestPinCode" -> RequestPinCode(a[1])
          [] call.method = "DisplayPinCode" -> DisplayPinCode(a[1], a[2])
          [] call.method = "RequestPasskey" -> RequestPasskey(a[1])
          [] call.method = "DisplayPasskey" -> DisplayPasskey(a[1], a[2], a[3])
          [] call.method = "RequestConfirmation" -> RequestConfirmation(a[1], a[2])
          [] call.method = "RequestAuthorization" -> RequestAuthorization(a[1])
          [] call.method = "AuthorizeService" -> AuthorizeService(a[1], a[2])
          [] call.method = "Cancel" -> Cancel

\* bus.export(AGENT_PATH, agent) has been done and the process is alive
Exported ==
    /\ pc \notin {"exited", "crashed"}
    /\ \E k \in 1..Len(log) : log[k].op = "Export" /\ log[k].path = AGENT_PATH

\* BlueZ calls a method of the agent: the method is a plain def without an
\* await, so the call and its reply are one step
agent_call ==
    /\ Exported
    /\ Len(replies) < MaxCalls
    /\ \E call \in AgentCalls :
         replies' = Append(replies, [call |-> call, reply |-> Invoke(call)])
    /\ UNCHANGED <<pc, log, exit_code, locator_vars, key_index, reactor_vars>>

Next ==
    \/ Connect
    \/ register_agent_export
    \/ call_register_agent
    \/ call_request_default_agent
    \/ poll
    \/ sleep
    \/ give_up
    \/ exit_no_adapter
    \/ get_adapter_props
    \/ provision
    \/ subscribe

Spec == Init /\ [][Next]_vars

(* The reactor on its own: main() has subscribed and sits in its future.   *)
(* The run of main() behind it is the one where every call succeeded at    *)
(* once; what the handlers read of it is adapter_path alone.               *)

StartupLog(adapter) ==
    << Call("Connect", "system", None, None, None, None, "ok"),
       IntrospectCall("/org/bluez", "ok"),
       Call("Export", AGENT_PATH, AGENT_IFACE, None, None, None, "ok"),
       Call("RegisterAgent", "/org/bluez", AGENT_MGR_IFACE, AGENT_PATH, None,
            AGENT_CAP, "ok"),
       Call("RequestDefaultAgent", "/org/bluez", AGENT_MGR_IFACE, AGENT_PATH,
            None, None, "ok"),
       IntrospectCall(adapter, "ok") >>
    \o [k \in 1..Len(Settings) |->
          SetCall(adapter, ADAPTER_IFACE, Settings[k][1], Settings[k][2], "ok")]
    \o << Call("AddSignalReceiver", "/org/bluez", PROPS_IFACE,
               "PropertiesChanged", None, None, "ok"),
          Line("stdout", "INFO", "Ready") >>

Subscribed ==
    /\ pc = "ready"
    /\ exit_code = <<>>
    /\ polls = 1
    /\ errors = 0
    /\ sleeps = 0
    /\ reply \in { o \in PollOutcomes : o.res = "ok" /\ FirstAdapter(o.objects) # None }
    /\ adapter_path = FirstAdapter(reply.objects)
    /\ log = StartupLog(adapter_path)
    /\ key_index = Len(Settings)
    /\ subscribed = TRUE
    /\ msgs = <<>>
    /\ hpc = <<>>
    /\ hlog = <<>>
    /\ replies = <<>>

NextReactor ==
    \/ deliver
    \/ \E i \in Events : filter(i)
    \/ \E i \in Events : get_dev_props(i)
    \/ \E i \in Events : set_trusted(i)
    \/ \E i \in Events : set_discoverable(i)

SpecReactor == Subscribed /\ [][NextReactor]_vars

(* The agent on its own: the object is exported, BlueZ calls its methods.  *)

NextAgent == agent_call

SpecAgent == Subscribed /\ [][NextAgent]_vars


(* ======================= properties of the reactor ===================== *)

\* a PropertiesChanged signal, as the subscription of line 170 selects them
IsNotification(m) ==
    /\ m.message_type = "SIGNAL"
    /\ m.interface = PROPS_IFACE
    /\ m.member = "PropertiesChanged"

\* the notification is on the device interface and carries Connected = boolean true
ConnectedBecameTrue(m) ==
    /\ m.body.iface = DEVICE_IFACE
    /\ \E k \in 1..Len(m.body.changed) :
         m.body.changed[k] = <<"Connected", Variant("b", "True")>>

Qualifying(i) == IsNotification(msgs[i]) /\ ConnectedBecameTrue(msgs[i])

IsTrustedWrite(e, d) ==
    /\ e.op = "Set" /\ e.path = d /\ e.iface = DEVICE_IFACE
    /\ e.arg = "Trusted" /\ e.sig = "b" /\ e.val = "True"

IsLookup(e, d) == e.op = "Introspect" /\ e.path = d

\* The Trusted write is the operation of lines 123-124: the lookup of the
\* device's accessor, then the Set.  It fails when either of them raises.
IsTrustStep(e, d) == IsLookup(e, d) \/ IsTrustedWrite(e, d)

IsRearm(e) ==
    /\ e.op = "Set" /\ e.path = adapter_path /\ e.iface = ADAPTER_IFACE
    /\ e.arg = "Discoverable" /\ e.sig = "b" /\ e.val = "True"

IsInfo(e, d) == e.op = "print" /\ e.path = "stdout" /\ e.arg = "INFO" /\ e.val = d

IsWarn(e, d) == e.op = "print" /\ e.path = "stdout" /\ e.arg = "WARN" /\ e.val = d

Positions(t, P(_)) == { k \in 1..Len(t) : P(t[k]) }

\* C1: a notification makes the reactor run the Trusted write and the
\* Discoverable write exactly when it is on the device interface and carries
\* Connected = true; any other notification (Connected = false, another
\* interface, no Connected entry) leaves the handler's trace empty for good.
RisingEdgeFilter ==
    \A i \in Events :
        IsNotification(msgs[i]) =>
            LET d == msgs[i].path
                trusts == \E k \in 1..Len(hlog[i]) : IsTrustStep(hlog[i][k], d)
                rearms == \E k \in 1..Len(hlog[i]) : IsRearm(hlog[i][k])
            IN  /\ ~ConnectedBecameTrue(msgs[i]) =>
                     /\ hlog[i] = <<>>
                     /\ hpc[i] \in {"on_props_changed", "done"}
                /\ hpc[i] = "done" => ((trusts /\ rearms) <=> ConnectedBecameTrue(msgs[i]))

\* one handler has done both writes for Connected = true on a device, others
\* have finished without any call: Connected = true on the adapter interface,
\* Connected = false, and a change without Connected
RisingEdgeFilterWitness ==
    \E i, j \in Events :
        /\ hpc[i] = "done" /\ Qualifying(i)
        /\ \E k \in 1..Len(hlog[i]) : IsTrustedWrite(hlog[i][k], msgs[i].path)
        /\ \E k \in 1..Len(hlog[i]) : IsRearm(hlog[i][k])
        /\ hpc[j] = "done" /\ hlog[j] = <<>>
        /\ msgs[j] \in { PropertiesChanged(Hci0.path, ADAPTER_IFACE, ConnectedTrue),
                         PropertiesChanged(Dev1.path, DEVICE_IFACE, ConnectedFalse) }

\* the trace of a finished handler of a qualifying event from device d:
\* one Trusted write operation on d, one Discoverable = true write on the
\* adapter, one "[INFO] ... trusted: d" line, in this order and nothing else
\* but the warning of a failed trust
IsTriple(t, d) ==
    LET n == Len(t)
    IN  /\ n >= 3
        /\ IsLookup(t[1], d)
        /\ Cardinality(Positions(t, LAMBDA e : IsLookup(e, d))) = 1
        /\ Cardinality(Positions(t, LAMBDA e : IsTrustedWrite(e, d)))
             = (IF t[1].res = "ok" THEN 1 ELSE 0)
        /\ t[1].res = "ok" => IsTrustedWrite(t[2], d)
        /\ IsRearm(t[n - 1])
        /\ IsInfo(t[n], d)
        /\ Positions(t, LAMBDA e : e.op = "Set" /\ ~IsTrustedWrite(e, d)) = {n - 1}
        /\ Positions(t, LAMBDA e : e.op = "print" /\ e.arg = "INFO") = {n}
        /\ \A k \in 1..(n - 2) : IsTrustStep(t[k], d) \/ IsWarn(t[k], d)

\* C2: every qualifying event from a device d yields one Trusted write
\* operation addressed to d, then one Discoverable = true write addressed to
\* the adapter, then one informational line naming d; events are not
\* deduplicated, so the finished qualifying events of d and the traces that
\* hold a triple for d are the same events.
TrustThenRearmThenInfo ==
    /\ \A i \in Events :
         (Qualifying(i) /\ hpc[i] = "done") => IsTriple(hlog[i], msgs[i].path)
    /\ \A i \in Events :
         (Qualifying(i) /\ hpc[i] # "done") =>
             /\ \A k \in 1..Len(hlog[i]) :
                  IsTrustStep(hlog[i][k], msgs[i].path) \/ IsWarn(hlog[i][k], msgs[i].path)
    /\ \A d \in {Dev1.path, Dev2.path, Dev3.path} :
         { i \in Events : Qualifying(i) /\ msgs[i].path = d /\ hpc[i] = "done" }
           = { i \in Events : \E k \in 1..Len(hlog[i]) : IsInfo(hlog[i][k], d) }

\* two finished qualifying events from the same device, each with its triple
TrustThenRearmThenInfoWitness ==
    /\ Len(msgs) >= 2
    /\ \A i \in 1..2 :
         /\ msgs[i] = PropertiesChanged(Dev1.path, DEVICE_IFACE, ConnectedTrue)
         /\ hpc[i] = "done"
         /\ Len(hlog[i]) = 4
         /\ IsTrustedWrite(hlog[i][2], Dev1.path)
         /\ IsRearm(hlog[i][3])
         /\ IsInfo(hlog[i][4], Dev1.path)

TrustFailed(t, d) == \E k \in 1..Len(t) : IsTrustStep(t[k], d) /\ t[k].res # "ok"

HandlerStep(i) ==
    filter(i) \/ get_dev_props(i) \/ set_trusted(i) \/ set_discoverable(i)

\* C3: when the Trusted write of an event failed (the accessor lookup or the
\* Set raised), the handler still goes on to the Discoverable write of that
\* event and finishes with it; the process keeps running, stays subscribed,
\* and every handler that is not finished can take its next step.
BestEffortIsolation ==
    /\ \A i \in Events :
         TrustFailed(hlog[i], msgs[i].path) =>
             /\ hpc[i] \in {"call_set_discoverable", "done"}
             /\ hpc[i] = "done" =>
                  \E k, j \in 1..Len(hlog[i]) :
                      /\ IsTrustStep(hlog[i][k], msgs[i].path)
                      /\ hlog[i][k].res # "ok"
                      /\ k < j
                      /\ IsRearm(hlog[i][j])
    /\ (\E i \in Events : TrustFailed(hlog[i], msgs[i].path)) =>
         /\ pc = "ready" /\ subscribed /\ exit_code = <<>>
         /\ Len(msgs) < MaxEvents => ENABLED deliver
         /\ \A j \in Events : hpc[j] # "done" => ENABLED HandlerStep(j)

\* the first event's trust failed and its re-arm was made; the next event
\* was handled with a successful trust
BestEffortIsolationWitness ==
    /\ Len(msgs) >= 2
    /\ hpc[1] = "done" /\ hpc[2] = "done"
    /\ Qualifying(1) /\ Qualifying(2)
    /\ TrustFailed(hlog[1], msgs[1].path)
    /\ \E k \in 1..Len(hlog[1]) : IsRearm(hlog[1][k])
    /\ ~TrustFailed(hlog[2], msgs[2].path)
    /\ IsTriple(hlog[2], msgs[2].path)

(* ======================== properties of startup ======================== *)

HasAdapter(objects) == \E k \in 1..Len(objects) : ADAPTER_IFACE \in objects[k].ifaces

InLoop == pc \in {"get_adapter_path", "sleep"}

\* get_adapter_path has returned None
NotFound == (pc = "check_adapter" /\ adapter_path = None) \/ pc = "exited"

\* C4: when the registry answers every poll and reports no adapter on the
\* first k polls, k < retries, the locator returns at poll k + 1, the first
\* that reports one: it returns the first adapter of that reply, it slept k
\* times before, and it polls no more.
DiscoverySuccess ==
    /\ (reply.res = "ok" /\ HasAdapter(reply.objects)) =>
         /\ ~InLoop
         /\ \E k \in 1..Len(reply.objects) :
              /\ reply.objects[k].path = adapter_path
              /\ ADAPTER_IFACE \in reply.objects[k].ifaces
              /\ \A j \in 1..(k - 1) : ADAPTER_IFACE \notin reply.objects[j].ifaces
    /\ (adapter_path # None /\ errors = 0) =>
         /\ reply.res = "ok" /\ HasAdapter(reply.objects)
         /\ polls \in 1..retries
         /\ sleeps = polls - 1

\* the adapter shows up at the last poll of the budget, second in a reply
\* that lists two adapters
DiscoverySuccessWitness ==
    /\ pc = "check_adapter"
    /\ errors = 0
    /\ polls = retries
    /\ sleeps = retries - 1
    /\ reply.objects = <<Root, Hci1, Dev3, Hci0>>
    /\ adapter_path = Hci1.path

\* C5: when no poll reports an adapter the locator returns None after
\* exactly `retries` polls: the count never passes `retries`, None is not
\* returned before it is reached, and the loop can always take its next step.
DiscoveryFailure ==
    /\ polls <= retries
    /\ NotFound => (polls = retries /\ sleeps = retries)
    /\ InLoop => ENABLED (poll \/ sleep \/ give_up)
    /\ (pc = "get_adapter_path" /\ polls = retries) => (ENABLED give_up /\ ~ENABLED poll)

\* ten polls, each answered without an adapter, and None returned
DiscoveryFailureWitness ==
    /\ pc = "check_adapter"
    /\ adapter_path = None
    /\ polls = retries
    /\ errors = 0

IsErrorLine(e) == e.op = "print" /\ e.path = "stderr" /\ e.arg = "ERROR"

\* C6: when the locator returned None the only step is the exit: the error
\* line is printed on stderr and the exit status is 1; the run holds no write
\* to an adapter and no subscription, and the exited process takes no step.
NotFoundIsFatal ==
    /\ (pc = "check_adapter" /\ adapter_path = None) =>
         (ENABLED exit_no_adapter /\ ~ENABLED get_adapter_props)
    /\ (\E k \in 1..Len(log) : IsErrorLine(log[k])) => pc = "exited"
    /\ pc = "exited" =>
         /\ IsErrorLine(log[Len(log)])
         /\ exit_code = <<1>>
         /\ \A k \in 1..Len(log) : log[k].op \notin {"Set", "AddSignalReceiver"}
         /\ ~subscribed
         /\ msgs = <<>>
         /\ ~ENABLED (Next \/ NextReactor)

\* the process has exited after ten fruitless polls
NotFoundIsFatalWitness ==
    /\ pc = "exited"
    /\ polls = retries
    /\ exit_code = <<1>>

IsRegister(e) == e.op = "RegisterAgent"

IsRequestDefault(e) == e.op = "RequestDefaultAgent"

\* C7: a register call answered "already registered" is followed like a
\* successful one: nothing is raised or printed, the next call is
\* RequestDefaultAgent with the path that was registered, and when that call
\* succeeds main() goes on to get_adapter_path.
RegistrationIdempotent ==
    \A k \in 1..Len(log) :
        (IsRegister(log[k]) /\ log[k].res \in {"ok", "AlreadyExists"}) =>
            /\ log[k].arg = AGENT_PATH
            /\ IF k = Len(log)
               THEN pc = "call_request_default_agent" /\ exit_code = <<>>
               ELSE /\ IsRequestDefault(log[k + 1])
                    /\ log[k + 1].arg = log[k].arg
                    /\ (k + 1 = Len(log) /\ log[k + 1].res = "ok") =>
                         /\ pc \in {"get_adapter_path", "sleep", "check_adapter"}
                         /\ exit_code = <<>>
                         /\ polls = 0 => pc = "get_adapter_path"

\* the agent was registered already and main() has come to the subscription
RegistrationIdempotentWitness ==
    /\ pc = "ready"
    /\ \E k \in 1..Len(log) : IsRegister(log[k]) /\ log[k].res = "AlreadyExists"
    /\ \E k \in 1..Len(log) : IsRequestDefault(log[k]) /\ log[k].res = "ok"

\* C8: a register call that failed for another reason than "already
\* registered" is reported (a line is printed, or the error leaves main()
\* with its traceback) right after the call, and the call is made once.
RegisterFailureReported ==
    /\ \A k \in 1..Len(log) :
         (IsRegister(log[k]) /\ log[k].res = "Failed") =>
             (k < Len(log) /\ log[k + 1].op = "print")
    /\ Cardinality({ k \in 1..Len(log) : IsRegister(log[k]) }) <= 1

\* C9: a failed RequestDefaultAgent call does not end the process.
RequestDefaultFailureNonFatal ==
    \A k \in 1..Len(log) :
        (IsRequestDefault(log[k]) /\ log[k].res # "ok") =>
            (pc # "crashed" /\ exit_code = <<>>)

ProvisioningWrites(key) ==
    { k \in 1..Len(log) :
        /\ log[k].op = "Set" /\ log[k].path = adapter_path
        /\ log[k].iface = ADAPTER_IFACE /\ log[k].arg = key }

\* C10: with the adapter's accessor in hand the loop attempts each of the
\* four writes once, whatever the outcome of the others: a key the loop has
\* passed was written exactly once, a key ahead not yet, and the loop ends
\* only after the fourth.
ProvisioningIndependence ==
    /\ \A j \in 1..Len(Settings) :
         Cardinality(ProvisioningWrites(Settings[j][1])) = (IF j <= key_index THEN 1 ELSE 0)
    /\ Cardinality({ k \in 1..Len(log) : log[k].op = "Set" }) = key_index
    /\ { Settings[j][1] : j \in 1..Len(Settings) }
         = {"Powered", "Pairable", "Discoverable", "Alias"}
    /\ pc = "provision" => key_index < Len(Settings)
    /\ pc \in {"subscribe", "ready"} => key_index = Len(Settings)

\* all four writes failed, each was attempted once, and the loop has ended
ProvisioningIndependenceWitness ==
    /\ pc = "subscribe"
    /\ \A j \in 1..Len(Settings) :
         \E k \in ProvisioningWrites(Settings[j][1]) : log[k].res = "Failed"

(* ===================== ordering, failures, the agent =================== *)

IsSubscribe(e) == e.op = "AddSignalReceiver"

\* C11: whenever the subscription is made, or a notification can be handed
\* to the handler, main() has behind it, in this order: the register call,
\* the request-default call (returned), the adapter (located, accessor
\* looked up), an attempt of each of the four provisioning writes, and the
\* subscription call; the locator runs after the registrar and before the
\* first adapter write, and no message is delivered without the subscription.
StartupOrdering ==
    /\ (subscribed \/ ENABLED deliver \/ msgs # <<>>) =>
         /\ subscribed
         /\ adapter_path # None
         /\ \E a, b, c, e \in 1..Len(log) :
              /\ a < b /\ b < c /\ c < e
              /\ IsRegister(log[a])
              /\ IsRequestDefault(log[b]) /\ log[b].res = "ok"
              /\ IsLookup(log[c], adapter_path) /\ log[c].res = "ok"
              /\ IsSubscribe(log[e]) /\ log[e].res = "ok"
              /\ \A j \in 1..Len(Settings) :
                   \E d \in ProvisioningWrites(Settings[j][1]) : c < d /\ d < e
    /\ polls > 0 => \E b \in 1..Len(log) : IsRequestDefault(log[b]) /\ log[b].res = "ok"
    /\ (\E k \in 1..Len(log) : log[k].op = "Set" \/ IsSubscribe(log[k])) =>
         (polls >= 1 /\ ~InLoop /\ adapter_path # None)
    /\ (\E k \in 1..Len(log) : IsSubscribe(log[k])) => key_index = Len(Settings)

\* main() has subscribed after a Discoverable write that failed, and the
\* bus can now deliver the first notification
StartupOrderingWitness ==
    /\ pc = "ready"
    /\ subscribed
    /\ ENABLED deliver
    /\ polls > 1
    /\ \E d \in ProvisioningWrites("Discoverable") : log[d].res = "Failed"

\* the adapter has been found and get_adapter_path has returned it
Located == adapter_path # None /\ ~InLoop

\* C12: once the adapter is located no failed remote call ends the process.
OnlyNotFoundTerminates ==
    Located => (pc \notin {"crashed", "exited"} /\ exit_code = <<>>)

\* C13: whatever method of the agent BlueZ calls, with whatever device and
\* arguments, the call is answered in the step it is made in, with a return
\* and never an error; RequestPinCode returns the empty string and
\* RequestPasskey returns 0, the others return nothing; and the agent can be
\* called again at once (it keeps no state a call could wait on).
ZeroInteractionAgent ==
    /\ \A k \in 1..Len(replies) :
         /\ replies[k].call \in AgentCalls
         /\ replies[k].reply.res = "ok"
         /\ replies[k].reply.values =
              (CASE replies[k].call.method = "RequestPinCode" -> <<"">>
                 [] replies[k].call.method = "RequestPasskey" -> <<0>>
                 [] OTHER -> <<>>)
    /\ Len(replies) < MaxCalls => ENABLED agent_call
    /\ { c.method : c \in AgentCalls } = Methods

\* a confirmation request for one device and a passkey request for another
\* were both answered
ZeroInteractionAgentWitness ==
    /\ Len(replies) = 2
    /\ replies[1].call = [method |-> "RequestConfirmation", args |-> <<Dev1.path, 123456>>]
    /\ replies[1].reply = Returns(<<>>)
    /\ replies[2].call = [method |-> "RequestPasskey", args |-> <<Dev3.path>>]
    /\ replies[2].reply = Returns(<<0>>)

\* the keys main() has written to the adapter, in the order of the writes
WrittenKeys ==
    LET sets == SelectSeq(log, LAMBDA e : e.op = "Set" /\ e.iface = ADAPTER_IFACE)
    IN  [k \in 1..Len(sets) |-> sets[k].arg]

IsPrefix(s, t) == Len(s) <= Len(t) /\ \A k \in 1..Len(s) : s[k] = t[k]

\* C15 as claimed: the writes go power, discoverable, pairable, alias.
ProvisioningOrderAsClaimed ==
    IsPrefix(WrittenKeys, <<"Powered", "Discoverable", "Pairable", "Alias">>)

\* C15, amended: the four provisioning writes are issued in the fixed order
\* power on, then pairable on, then discoverable on, then display alias.
ProvisioningOrder ==
    /\ IsPrefix(WrittenKeys, <<"Powered", "Pairable", "Discoverable", "Alias">>)
    /\ Len(WrittenKeys) = key_index
    /\ pc \in {"subscribe", "ready"} =>
         WrittenKeys = <<"Powered", "Pairable", "Discoverable", "Alias">>

\* the loop has ended; the Pairable write failed and the Discoverable write
\* after it succeeded
ProvisioningOrderWitness ==
    /\ pc = "subscribe"
    /\ \E a \in ProvisioningWrites("Pairable"), b \in ProvisioningWrites("Discoverable") :
         a < b /\ log[a].res = "Failed" /\ log[b].res = "ok"

\* C16: every property write that failed is followed at once by a warning
\* line, in main() and in every handler.
EveryFailedWriteWarned ==
    /\ \A k \in 1..Len(log) :
         (log[k].op = "Set" /\ log[k].res # "ok") =>
             (k < Len(log) /\ log[k + 1].op = "print" /\ log[k + 1].arg = "WARN")
    /\ \A i \in Events : \A k \in 1..Len(hlog[i]) :
         (hlog[i][k].op = "Set" /\ hlog[i][k].res # "ok") =>
             (k < Len(hlog[i]) /\ hlog[i][k + 1].op = "print"
                               /\ hlog[i][k + 1].arg = "WARN")

\* C17: a poll whose query raised is one more fruitless attempt: nothing is
\* raised out of the locator, it sleeps and polls on within the budget of
\* `retries` attempts, returns the adapter of the first reply that has one,
\* and returns None only when all `retries` attempts were fruitless.
LocatorSwallowsErrors ==
    /\ errors <= polls /\ polls <= retries
    /\ reply.res \notin {"ok", None} =>
         /\ pc \in {"sleep", "get_adapter_path", "check_adapter", "exited"}
         /\ adapter_path = None
         /\ exit_code # <<>> => pc = "exited"
    /\ pc = "sleep" => (sleeps = polls - 1 /\ adapter_path = None)
    /\ pc = "get_adapter_path" => (sleeps = polls /\ adapter_path = None)
    /\ adapter_path # None =>
         /\ sleeps = polls - 1
         /\ reply.res = "ok"
         /\ adapter_path = FirstAdapter(reply.objects)
    /\ NotFound => (polls = retries /\ sleeps = retries)

\* nine queries raised and the tenth reply held the adapter, which was returned
LocatorSwallowsErrorsWitness ==
    /\ pc = "check_adapter"
    /\ errors = retries - 1
    /\ polls = retries
    /\ adapter_path = Hci0.path

\* a qualifying notification from an object that is not under the adapter
\* main() located
Foreign(i) == Qualifying(i) /\ AdapterOf(msgs[i].path) # adapter_path

\* C18 as claimed: a qualifying notification from outside the located
\* adapter's namespace causes no write.
ForeignEventsIgnored ==
    \A i \in Events :
        Foreign(i) => \A k \in 1..Len(hlog[i]) : hlog[i][k].op # "Set"

\* C18, amended: the reactor reacts to the notifications of every object
\* under /org/bluez, the namespace it subscribed to: a qualifying
\* notification of a device of another adapter is handled like any other, with
\* the Trusted write to that device and the Discoverable write to the located
\* adapter.
ForeignEventsHandled ==
    /\ \A k \in 1..Len(log) :
         IsSubscribe(log[k]) => (log[k].path = "/org/bluez" /\ log[k].path # adapter_path)
    /\ \A i \in Events :
         Foreign(i) =>
             /\ hpc[i] # "on_props_changed" =>
                  (hpc[i] # "done" \/ IsTriple(hlog[i], msgs[i].path))
             /\ hpc[i] = "done" =>
                  /\ \E k \in 1..Len(hlog[i]) : IsTrustStep(hlog[i][k], msgs[i].path)
                  /\ \E k \in 1..Len(hlog[i]) :
                       IsRearm(hlog[i][k]) /\ hlog[i][k].path # AdapterOf(msgs[i].path)

\* the located adapter is hci0; a device of hci1 connected, was trusted, and
\* hci0 was made discoverable again
ForeignEventsHandledWitness ==
    /\ adapter_path = Hci0.path
    /\ \E i \in Events :
         /\ msgs[i] = PropertiesChanged(Dev3.path, DEVICE_IFACE, ConnectedTrue)
         /\ hpc[i] = "done"
         /\ \E k \in 1..Len(hlog[i]) :
              IsTrustedWrite(hlog[i][k], Dev3.path) /\ hlog[i][k].res = "ok"
         /\ \E k \in 1..Len(hlog[i]) : IsRearm(hlog[i][k]) /\ hlog[i][k].path = Hci0.path

IsAdapterWrite(e) == e.op = "Set" /\ e.iface = ADAPTER_IFACE

\* C19: the process holds one adapter, the first one of the reply that ended
\* the polling; every write to an adapter property, in main() and in every
\* handler, goes to it, whatever object the notification came from, and no
\* poll is made after it was chosen.
SingleAdapterHandle ==
    /\ Located =>
         /\ reply.res = "ok"
         /\ \E k \in 1..Len(reply.objects) :
              /\ reply.objects[k].path = adapter_path
              /\ ADAPTER_IFACE \in reply.objects[k].ifaces
              /\ \A j \in 1..(k - 1) : ADAPTER_IFACE \notin reply.objects[j].ifaces
    /\ \A k \in 1..Len(log) : IsAdapterWrite(log[k]) => (Located /\ log[k].path = adapter_path)
    /\ \A i \in Events : \A k \in 1..Len(hlog[i]) :
         IsAdapterWrite(hlog[i][k]) => (Located /\ hlog[i][k].path = adapter_path)
    /\ adapter_path # None => ~ENABLED poll

\* the registry listed hci1 before hci0; the four provisioning writes went to
\* hci1, and so did the re-arm for a device of hci0
SingleAdapterHandleWitness ==
    /\ reply.objects = <<Root, Hci1, Dev3, Hci0>>
    /\ adapter_path = Hci1.path
    /\ \A j \in 1..Len(Settings) :
         \E k \in ProvisioningWrites(Settings[j][1]) : log[k].path = Hci1.path
    /\ \E i \in Events :
         /\ msgs[i].path = Dev1.path
         /\ hpc[i] = "done"
         /\ \E k \in 1..Len(hlog[i]) : IsRearm(hlog[i][k]) /\ hlog[i][k].path = Hci1.path

\* C20: the "[INFO] Device connected and trusted" line of a handler comes
\* after a Trusted write to that device that succeeded in the same handler.
TrustedLineTruthful ==
    \A i \in Events : \A k \in 1..Len(hlog[i]) :
        IsInfo(hlog[i][k], msgs[i].path) =>
            \E j \in 1..(k - 1) :
                IsTrustedWrite(hlog[i][j], msgs[i].path) /\ hlog[i][j].res = "ok"

====
